---- MODULE Spec2Model ----
(***************************************************************************)
(* A model of src/src/lib.rs: the validating constructors of               *)
(* TwoLineElement (new, from_lines) and the two reads of a handle (epoch,  *)
(* propagate_to).  Text is a sequence of characters, each with its UTF-8   *)
(* width, so that str::len, str::trim and str::split are computed as the   *)
(* standard library computes them.  The module sgp4_sys is declared by the *)
(* source (line 6) but its code is not part of it: its two routines are    *)
(* modelled from the specification as deterministic routines whose answers *)
(* are chosen by the environment.                                          *)
(***************************************************************************)
EXTENDS Integers, Sequences, FiniteSets, TLC

\* the fields of the records below, in the order every record lists them
FieldOrder ==
    [answer |-> 1, args |-> 2, detail |-> 3, elements |-> 4, epoch |-> 5,
     err |-> 6, ext |-> 7, fn |-> 8, gravity |-> 9, kind |-> 10, line1 |->
     11, line2 |-> 12, none |-> 13, ok |-> 14, op |-> 15, opsmode |-> 16,
     position |-> 17, reason |-> 18, res |-> 19, run_type |-> 20, rv |->
     21, self |-> 22, tsince |-> 23, val |-> 24, velocity |-> 25]

VARIABLES
    tle,    \* the TwoLineElement the last constructor call returned, or NoTle
    hist    \* the most recent calls: operation, arguments, the handle it was
            \* called on, result, external calls made

vars == <<tle, hist>>

(***************************************************************************)
(* Bounds of the model.                                                    *)
(***************************************************************************)
MaxIndent == 1   \* whitespace characters put around an input line
MaxDelta  == 1   \* input lines are TLE_LINE_LENGTH -MaxDelta .. +MaxDelta long
MaxHist   == 3   \* calls on one handle that hist keeps
MaxDays   == 1   \* the farthest target times are MaxDays days (and a bit) from the epoch

(***************************************************************************)
(* Text.                                                                   *)
(***************************************************************************)
NL == "\n"
WhiteSpace == {" ", "\t", NL}
NonAscii == "U+00E9"            \* a character whose UTF-8 encoding has 2 bytes

Rep(c, n) == [i \in 1..n |-> c]

Utf8Len(c) == IF c = NonAscii THEN 2 ELSE 1

\* a length in characters where the code takes bytes
len_chars(s) == Len(s)

\* str::len: the length in bytes, the sum of the characters' UTF-8 widths
len(s) ==
    Len(s) + Cardinality({i \in 1..Len(s) : Utf8Len(s[i]) = 2})

RECURSIVE trim_start(_)
trim_start(s) ==
    IF s # <<>> /\ Head(s) \in WhiteSpace THEN trim_start(Tail(s)) ELSE s

RECURSIVE trim_end(_)
trim_end(s) ==
    IF s # <<>> /\ s[Len(s)] \in WhiteSpace
    THEN trim_end(SubSeq(s, 1, Len(s) - 1))
    ELSE s

\* str::trim
trim(s) == trim_end(trim_start(s))

\* str::lines in place of split: a final empty segment is dropped
RECURSIVE lines_of(_)
lines_of(s) ==
    IF s = <<>> THEN <<>>
    ELSE IF \E i \in 1..Len(s) : s[i] = NL
    THEN LET i == CHOOSE k \in 1..Len(s) :
                      s[k] = NL /\ \A j \in 1..(k - 1) : s[j] # NL
         IN  <<SubSeq(s, 1, i - 1)>> \o lines_of(SubSeq(s, i + 1, Len(s)))
    ELSE <<s>>

\* str::split("\n"): the segments between newlines, empty ones included
RECURSIVE split(_)
split(s) ==
    IF \E i \in 1..Len(s) : s[i] = NL
    THEN LET i == CHOOSE k \in 1..Len(s) :
                      s[k] = NL /\ \A j \in 1..(k - 1) : s[j] # NL
         IN  <<SubSeq(s, 1, i - 1)>> \o split(SubSeq(s, i + 1, Len(s)))
    ELSE <<s>>

\* the part split_off leaves behind, taken for the part it returns
split_off_head(ls, at) == SubSeq(ls, 1, Len(ls) - at)

\* Vec::split_off(at): the elements from index at (0-based) on
split_off(ls, at) == SubSeq(ls, at + 1, Len(ls))

\* format!: the pieces of the rendered text, numbers rendered in decimal
format_length(which, expected, got) ==
    <<which, " is the wrong length. Expected ", ToString(expected),
      ", but got ", ToString(got)>>

format_count(got) == <<"Expected two lines, got ", ToString(got)>>

format_debug(e) == <<e>>

(***************************************************************************)
(* Results and errors.                                                     *)
(***************************************************************************)
Ok(v)  == [ok |-> TRUE, val |-> v]
Err(e) == [err |-> e, ok |-> FALSE]

MalformedTwoLineElement(detail) ==
    [detail |-> detail, kind |-> "MalformedTwoLineElement"]
PropagationError == [kind |-> "PropagationError"]
UnknownError(detail) == [detail |-> detail, kind |-> "UnknownError"]

\* position and velocity exchanged
StateVector_swapped(r, v) == [position |-> v, velocity |-> r]

StateVector(r, v) == [position |-> r, velocity |-> v]

TLE_LINE_LENGTH == 69

NoTle == [none |-> TRUE]
TwoLineElement(elements) == [elements |-> elements]

(***************************************************************************)
(* sgp4_sys, modelled from the specification.  An answer is what the       *)
(* external routine decides for the arguments it is given.                 *)
(***************************************************************************)
Epochs == {0, 43200}                    \* epochs an element set can carry, in seconds
IngestErrors == {"BadChecksum", "NonNumericField"}
IngestAnswers ==
    {[epoch |-> e, ok |-> TRUE] : e \in Epochs}
        \cup {[ok |-> FALSE, reason |-> r] : r \in IngestErrors}

to_orbital_elements(line1, line2, run_type, opsmode, gravity, answer) ==
    IF answer.ok
    THEN Ok([epoch |-> answer.epoch, gravity |-> gravity, line1 |-> line1,
             line2 |-> line2, opsmode |-> opsmode, run_type |-> run_type])
    ELSE Err(answer.reason)

\* OrbitalElementSet::epoch
elements_epoch(elements) == elements.epoch

IngestCall(line1, line2, run_type, opsmode, gravity, answer) ==
    [answer |-> answer, fn |-> "to_orbital_elements", gravity |-> gravity,
     line1 |-> line1, line2 |-> line2, opsmode |-> opsmode,
     run_type |-> run_type]

(***************************************************************************)
(* TwoLineElement::new and TwoLineElement::from_lines.  Each returns the   *)
(* result (res) and the external calls it made (ext).                      *)
(***************************************************************************)
\* new, reporting an ingestion failure as UnknownError
new_unknown_error(line1_, line2_, answer) ==
    LET line1 == trim(line1_)
        line2 == trim(line2_)
    IN  IF len(line1) # TLE_LINE_LENGTH
        THEN [ext |-> <<>>,
              res |-> Err(MalformedTwoLineElement(
                         format_length("Line 1", TLE_LINE_LENGTH, len(line1))))]
        ELSE IF len(line2) # TLE_LINE_LENGTH
        THEN [ext |-> <<>>,
              res |-> Err(MalformedTwoLineElement(
                         format_length("Line 2", TLE_LINE_LENGTH, len(line2))))]
        ELSE LET elements == to_orbital_elements(
                                 line1, line2, "Verification", "Improved",
                                 "Wgs84", answer)
                 call == IngestCall(line1, line2, "Verification", "Improved",
                                    "Wgs84", answer)
             IN  IF elements.ok
                 THEN [ext |-> <<call>>,
                       res |-> Ok(TwoLineElement(elements.val))]
                 ELSE [ext |-> <<call>>,
                       res |-> Err(UnknownError(format_debug(elements.err)))]

\* new, checking line 2 before line 1
new_line2_first(line1_, line2_, answer) ==
    LET line1 == trim(line1_)
        line2 == trim(line2_)
    IN  IF len(line2) # TLE_LINE_LENGTH
        THEN [ext |-> <<>>,
              res |-> Err(MalformedTwoLineElement(
                         format_length("Line 2", TLE_LINE_LENGTH, len(line2))))]
        ELSE IF len(line1) # TLE_LINE_LENGTH
        THEN [ext |-> <<>>,
              res |-> Err(MalformedTwoLineElement(
                         format_length("Line 1", TLE_LINE_LENGTH, len(line1))))]
        ELSE LET elements == to_orbital_elements(
                                 line1, line2, "Verification", "Improved",
                                 "Wgs84", answer)
                 call == IngestCall(line1, line2, "Verification", "Improved",
                                    "Wgs84", answer)
             IN  IF elements.ok
                 THEN [ext |-> <<call>>,
                       res |-> Ok(TwoLineElement(elements.val))]
                 ELSE [ext |-> <<call>>,
                       res |-> Err(MalformedTwoLineElement(
                                  format_debug(elements.err)))]

new(line1_, line2_, answer) ==
    LET line1 == trim(line1_)
        line2 == trim(line2_)
    IN  IF len(line1) # TLE_LINE_LENGTH
        THEN [ext |-> <<>>,
              res |-> Err(MalformedTwoLineElement(
                         format_length("Line 1", TLE_LINE_LENGTH, len(line1))))]
        ELSE IF len(line2) # TLE_LINE_LENGTH
        THEN [ext |-> <<>>,
              res |-> Err(MalformedTwoLineElement(
                         format_length("Line 2", TLE_LINE_LENGTH, len(line2))))]
        ELSE LET elements == to_orbital_elements(
                                 line1, line2, "Verification", "Improved",
                                 "Wgs84", answer)
                 call == IngestCall(line1, line2, "Verification", "Improved",
                                    "Wgs84", answer)
             IN  IF elements.ok
                 THEN [ext |-> <<call>>,
                       res |-> Ok(TwoLineElement(elements.val))]
                 ELSE [ext |-> <<call>>,
                       res |-> Err(MalformedTwoLineElement(
                                  format_debug(elements.err)))]

\* from_lines, taking every count from three up as a header and two lines
from_lines_lenient(combined_lines, answer) ==
    LET ls == split(combined_lines)
    IN  IF Len(ls) >= 3
        THEN LET lines == split_off(ls, 1)
             IN  new(lines[1], lines[2], answer)
        ELSE IF Len(ls) = 2
        THEN new(ls[1], ls[2], answer)
        ELSE [ext |-> <<>>,
              res |-> Err(MalformedTwoLineElement(format_count(Len(ls))))]

from_lines(combined_lines, answer) ==
    LET ls == split(combined_lines)
    IN  IF Len(ls) = 3
        THEN LET lines == split_off(ls, 1)
             IN  new(lines[1], lines[2], answer)
        ELSE IF Len(ls) = 2
        THEN new(ls[1], ls[2], answer)
        ELSE [ext |-> <<>>,
              res |-> Err(MalformedTwoLineElement(format_count(Len(ls))))]

(***************************************************************************)
(* TwoLineElement::epoch and TwoLineElement::propagate_to.  Times are in   *)
(* seconds.  Each returns the result, the external calls made, and the     *)
(* handle as the call leaves it.                                           *)
(***************************************************************************)
SecondsPerDay == 86400

\* chrono::Duration::num_days: whole days, rounded toward zero
num_days(d) ==
    IF d >= 0 THEN d \div SecondsPerDay ELSE -((-d) \div SecondsPerDay)

Sgp4Errors == {"Decayed", "Diverged"}
Sgp4States == {<<<<1, 2, 3>>, <<4, 5, 6>>>>, <<<<7, 8, 9>>, <<6, 5, 4>>>>}
Sgp4Answers ==
    {[ok |-> TRUE, rv |-> s] : s \in Sgp4States}
        \cup {[ok |-> FALSE, reason |-> r] : r \in Sgp4Errors}

run_sgp4(elements, gravity, tsince, answer) ==
    IF answer.ok THEN Ok(answer.rv) ELSE Err(answer.reason)

Sgp4Call(elements, gravity, tsince, answer) ==
    [answer |-> answer, elements |-> elements, fn |-> "run_sgp4",
     gravity |-> gravity, tsince |-> tsince]

epoch(self) ==
    [ext |-> <<>>, res |-> Ok(elements_epoch(self.elements)), self |-> self]

\* propagate_to, moving the element set's epoch to the target time
propagate_to_advancing(self, t, answer) ==
    LET tle_epoch == elements_epoch(self.elements)
        min_since_epoch == num_days(t - tle_epoch)
        rv == run_sgp4(self.elements, "Wgs84", min_since_epoch, answer)
        call == Sgp4Call(self.elements, "Wgs84", min_since_epoch, answer)
        moved == [self EXCEPT !.elements.epoch = t]
    IN  IF rv.ok
        THEN [ext |-> <<call>>,
              res |-> Ok(StateVector(rv.val[1], rv.val[2])), self |-> moved]
        ELSE [ext |-> <<call>>, res |-> Err(PropagationError), self |-> moved]

propagate_to(self, t, answer) ==
    LET tle_epoch == elements_epoch(self.elements)
        min_since_epoch == num_days(t - tle_epoch)
        rv == run_sgp4(self.elements, "Wgs84", min_since_epoch, answer)
        call == Sgp4Call(self.elements, "Wgs84", min_since_epoch, answer)
    IN  IF rv.ok
        THEN [ext |-> <<call>>,
              res |-> Ok(StateVector(rv.val[1], rv.val[2])), self |-> self]
        ELSE [ext |-> <<call>>, res |-> Err(PropagationError), self |-> self]

(***************************************************************************)
(* The inputs the callers draw from.                                       *)
(***************************************************************************)
Lens == (TLE_LINE_LENGTH - MaxDelta)..(TLE_LINE_LENGTH + MaxDelta)

\* a line of n characters that starts with its line number
Body(first, n) == <<first>> \o Rep("a", n - 1)
\* the same with a 2-byte character at its end: n characters, n + 1 bytes
BodyNonAscii(first, n) == <<first>> \o Rep("a", n - 2) \o <<NonAscii>>

Pad(b, i, j) == Rep(" ", i) \o b \o Rep(" ", j)

Bodies(first) ==
    {Body(first, n) : n \in Lens}
        \cup {BodyNonAscii(first, n) : n \in Lens \ {TLE_LINE_LENGTH + MaxDelta}}
        \cup {<<>>}

Lines1 == {Pad(b, i, 0) : b \in Bodies("1"), i \in 0..MaxIndent}
Lines2 == {Pad(b, i, i) : b \in Bodies("2"), i \in 0..MaxIndent}

\* the lines of tests::test_simple_propagation, up to their content
TleLine1 == Body("1", TLE_LINE_LENGTH)
TleLine2 == Body("2", TLE_LINE_LENGTH)

RECURSIVE Join(_)
Join(segs) ==
    IF Len(segs) = 1 THEN segs[1] ELSE segs[1] \o <<NL>> \o Join(Tail(segs))

Headers == {<<>>, <<"I", "S", "S">>, TleLine1}
BlobLines1 == {TleLine1, Pad(TleLine1, MaxIndent, MaxIndent)}
BlobLines2 ==
    {TleLine2, Pad(TleLine2, MaxIndent, 0),
     Body("2", TLE_LINE_LENGTH + MaxDelta)}
Trailing == {<<>>, <<<<>>>>, <<<<>>, <<>>>>}

Blobs ==
    {Join(h \o <<s1, s2>> \o t) :
        h \in {<<>>} \cup {<<x>> : x \in Headers},
        s1 \in BlobLines1, s2 \in BlobLines2, t \in Trailing}
        \cup {<<>>, TleLine1}

\* target times, as seconds from the epoch: 90 seconds before it, the epoch,
\* an hour after it, 90 seconds more than MaxDays days before it and an hour
\* more than MaxDays days after it
Deltas == {-90, 0, 3600, -(MaxDays * SecondsPerDay) - 90,
           MaxDays * SecondsPerDay + 3600}

(***************************************************************************)
(* The state machine: a caller that constructs handles and reads them.     *)
(***************************************************************************)
HandleOps == {"epoch", "propagate_to"}

LastN(s, n) == IF Len(s) <= n THEN s ELSE SubSeq(s, Len(s) - n + 1, Len(s))

\* c is b under one more first line: a header (without newline), a newline, b
IsHeaded(b, c) ==
    LET n == Len(c) - Len(b)
    IN  /\ n >= 1
        /\ c[n] = NL
        /\ \A i \in 1..(n - 1) : c[i] # NL
        /\ SubSeq(c, n + 1, Len(c)) = b

\* hist keeps the calls the properties compare: the last MaxHist calls on the
\* current handle, or the last constructor call and, when that is from_lines
\* of the blob of the from_lines call before it under a header, that call too.
Record(h, e) ==
    IF e.op \in HandleOps
    THEN LastN(SelectSeq(h, LAMBDA x : x.op \in HandleOps), MaxHist - 1) \o <<e>>
    ELSE IF /\ e.op = "from_lines" /\ h # <<>> /\ h[Len(h)].op = "from_lines"
            /\ IsHeaded(h[Len(h)].args[1], e.args[1])
    THEN <<h[Len(h)], e>>
    ELSE <<e>>

\* The external routines are deterministic: a call answers as the same call
\* answered before, and as it answered when it built the handle held.
SameCall(c, d) == [c EXCEPT !.answer = 0] = [d EXCEPT !.answer = 0]

Agrees(c) ==
    /\ \A i \in 1..Len(hist) : \A j \in 1..Len(hist[i].ext) :
           SameCall(c, hist[i].ext[j]) => c.answer = hist[i].ext[j].answer
    /\ (c.fn = "to_orbital_elements" /\ tle # NoTle)
           => LET a == [epoch |-> elements_epoch(tle.elements), ok |-> TRUE]
                  made == to_orbital_elements(c.line1, c.line2, c.run_type,
                                              c.opsmode, c.gravity, a)
              IN  made.val = tle.elements => c.answer = a

\* an answer is drawn only for a call that is made
Drawn(out, answer, answers) ==
    /\ out.ext = <<>> => answer = CHOOSE a \in answers : TRUE
    /\ \A i \in 1..Len(out.ext) : Agrees(out.ext[i])

Construct(op, args, out) ==
    /\ tle' = IF out.res.ok THEN out.res.val ELSE NoTle
    /\ hist' = Record(hist, [args |-> args, ext |-> out.ext, op |-> op,
                             res |-> out.res, self |-> NoTle])

NewOn(lines1, lines2) ==
    \E line1 \in lines1, line2 \in lines2, answer \in IngestAnswers :
        \E out \in {new(line1, line2, answer)} :
            /\ Drawn(out, answer, IngestAnswers)
            /\ Construct("new", <<line1, line2>>, out)

New == NewOn(Lines1, Lines2)

FromLines ==
    \E combined_lines \in Blobs, answer \in IngestAnswers :
        \E out \in {from_lines(combined_lines, answer)} :
            /\ Drawn(out, answer, IngestAnswers)
            /\ Construct("from_lines", <<combined_lines>>, out)

NewTle == NewOn({TleLine1}, {TleLine2})

Read(op, args, out) ==
    /\ tle' = out.self
    /\ hist' = Record(hist, [args |-> args, ext |-> out.ext, op |-> op,
                             res |-> out.res, self |-> tle])

Epoch ==
    /\ tle # NoTle
    /\ Read("epoch", <<>>, epoch(tle))

PropagateTo ==
    /\ tle # NoTle
    /\ \E d \in Deltas, answer \in Sgp4Answers :
           \E out \in {propagate_to(tle, elements_epoch(tle.elements) + d,
                                     answer)} :
               /\ Drawn(out, answer, Sgp4Answers)
               /\ Read("propagate_to",
                       <<elements_epoch(tle.elements) + d>>, out)

Init == tle = NoTle /\ hist = <<>>

\* the constructors, on every input
Next == New \/ FromLines
Spec == Init /\ [][Next]_vars

\* a handle built as in tests::test_simple_propagation, and its reads
NextProp == NewTle \/ Epoch \/ PropagateTo
SpecProp == Init /\ [][NextProp]_vars

(***************************************************************************)
(* What the properties measure, defined apart from the operators above.    *)
(***************************************************************************)
RECURSIVE BytesUpTo(_, _)
BytesUpTo(s, k) ==
    IF k = 0 THEN 0
    ELSE BytesUpTo(s, k - 1) + (IF s[k] = "U+00E9" THEN 2 ELSE 1)

\* the length of a text in bytes, and in characters
ByteLen(s) == BytesUpTo(s, Len(s))
CharLen(s) == Len(s)

\* a text without its leading and trailing whitespace
Stripped(s) ==
    LET keep == {i \in 1..Len(s) : s[i] \notin {" ", "\t", "\n"}}
    IN  IF keep = {} THEN <<>>
        ELSE SubSeq(s, CHOOSE i \in keep : \A j \in keep : i <= j,
                       CHOOSE i \in keep : \A j \in keep : i >= j)

\* the number of newline-delimited segments of a text
SegCount(b) == 1 + Cardinality({i \in 1..Len(b) : b[i] = "\n"})

Calls(op) == {i \in 1..Len(hist) : hist[i].op = op}
Constructions == Calls("new") \cup Calls("from_lines")

IsLengthError(res, which, got) ==
    res = [err |-> [detail |-> <<which, " is the wrong length. Expected ",
                                 "69", ", but got ", ToString(got)>>,
                    kind |-> "MalformedTwoLineElement"],
           ok |-> FALSE]

AnyLengthError(res) ==
    /\ ~res.ok
    /\ res.err.kind = "MalformedTwoLineElement"
    /\ Len(res.err.detail) = 5
    /\ res.err.detail[2] = " is the wrong length. Expected "

IsCountError(res) ==
    /\ ~res.ok
    /\ res.err.kind = "MalformedTwoLineElement"
    /\ res.err.detail[1] = "Expected two lines, got "

\* what new must return for two lines, with lengths measured by measure
LengthContract(e, measure(_)) ==
    LET n1 == measure(Stripped(e.args[1]))
        n2 == measure(Stripped(e.args[2]))
    IN  /\ (n1 # 69 \/ n2 # 69)
            => \/ n1 # 69 /\ IsLengthError(e.res, "Line 1", n1)
               \/ n2 # 69 /\ IsLengthError(e.res, "Line 2", n2)
        /\ (n1 = 69 /\ n2 = 69) => ~AnyLengthError(e.res)

(***************************************************************************)
(* The constructors (Spec).                                                *)
(***************************************************************************)

\* C2, as claimed: a line whose trimmed length in characters is not 69 makes
\* new fail with a wrong-length error that names the line, 69 and that
\* length; two lines of 69 characters give no wrong-length error.
C2_CharacterLength ==
    \A i \in Calls("new") : LengthContract(hist[i], CharLen)

\* C2, amended: the same with the trimmed length in bytes of UTF-8, the
\* length the code measures and reports.
C2_ByteLength ==
    \A i \in Calls("new") : LengthContract(hist[i], ByteLen)

\* C2's case: a line 1 of 68 characters and 69 bytes passes the length check,
\* and the line 2 after it, 70 bytes long, is the one reported.
C2_Witness ==
    \E i \in Calls("new") :
        /\ CharLen(Stripped(hist[i].args[1])) = 68
        /\ ByteLen(Stripped(hist[i].args[1])) = 69
        /\ IsLengthError(hist[i].res, "Line 2", 70)

\* C4: from_lines of a text of 1 or of 4 and more segments fails with the
\* count-mismatch error that carries the segment count, and makes no
\* external call; of 2 or 3 segments it never gives that error.
C4_CountMismatch ==
    \A i \in Calls("from_lines") :
        LET e == hist[i]
            n == SegCount(e.args[1])
        IN  /\ (n = 1 \/ n >= 4)
                => /\ e.res = [err |-> [detail |-> <<"Expected two lines, got ",
                                                     ToString(n)>>,
                                        kind |-> "MalformedTwoLineElement"],
                               ok |-> FALSE]
                   /\ e.ext = <<>>
            /\ n \in {2, 3} => ~IsCountError(e.res)

\* C4's case: a text of more than three segments was refused.
C4_Witness ==
    \E i \in Calls("from_lines") :
        SegCount(hist[i].args[1]) >= 4 /\ IsCountError(hist[i].res)

\* C5: from_lines of a two-line blob and of the same blob under a non-empty
\* header line return the same result, after the same call to ingestion.
C5_HeaderInvariance ==
    \A i, j \in Calls("from_lines") : \A h \in Headers \ {<<>>} :
        (/\ SegCount(hist[i].args[1]) = 2
         /\ hist[j].args[1] = h \o <<"\n">> \o hist[i].args[1])
            => /\ hist[i].res = hist[j].res
               /\ hist[i].ext = hist[j].ext

\* C5's case: an indented two-line blob and the blob under a header, both
\* accepted.
C5_Witness ==
    \E i, j \in Calls("from_lines") : \E h \in Headers \ {<<>>} :
        /\ SegCount(hist[i].args[1]) = 2
        /\ hist[i].args[1][1] = " "
        /\ hist[j].args[1] = h \o <<"\n">> \o hist[i].args[1]
        /\ hist[i].res.ok /\ hist[j].res.ok

\* C6: a rejection by ingestion is returned as MalformedTwoLineElement with
\* the rejection's reason as its detail, and leaves no handle; a handle is
\* the result of a call in which both lines had 69 bytes and ingestion
\* succeeded.
C6_IngestionFailure ==
    /\ \A i \in Constructions : \A j \in 1..Len(hist[i].ext) :
           ~hist[i].ext[j].answer.ok
               => hist[i].res =
                      [err |-> [detail |-> <<hist[i].ext[j].answer.reason>>,
                                kind |-> "MalformedTwoLineElement"],
                       ok |-> FALSE]
    /\ hist # <<>> =>
           LET e == hist[Len(hist)]
           IN  /\ ~e.res.ok => tle = NoTle
               /\ tle # NoTle
                      => /\ e.res = [ok |-> TRUE, val |-> tle]
                         /\ Len(e.ext) = 1
                         /\ e.ext[1].answer.ok
                         /\ tle.elements.epoch = e.ext[1].answer.epoch
                         /\ ByteLen(tle.elements.line1) = 69
                         /\ ByteLen(tle.elements.line2) = 69

\* C6's case: both lines passed the length check and ingestion refused them.
C6_Witness ==
    /\ hist # <<>>
    /\ hist[Len(hist)].op = "new"
    /\ Len(hist[Len(hist)].ext) = 1
    /\ ~hist[Len(hist)].ext[1].answer.ok
    /\ tle = NoTle

\* C9: new checks line 1, then line 2, then calls ingestion: a wrong line 1
\* is reported whatever line 2 is, a wrong line 2 only after a right line 1,
\* and no call is made in either case; every call to ingestion, from either
\* constructor, has the fixed configuration and two trimmed lines of 69 bytes.
C9_ValidationOrder ==
    /\ \A i \in Calls("new") :
           LET e == hist[i]
               t1 == Stripped(e.args[1])
               t2 == Stripped(e.args[2])
           IN  /\ ByteLen(t1) # 69
                   => e.ext = <<>> /\ IsLengthError(e.res, "Line 1", ByteLen(t1))
               /\ (ByteLen(t1) = 69 /\ ByteLen(t2) # 69)
                   => e.ext = <<>> /\ IsLengthError(e.res, "Line 2", ByteLen(t2))
               /\ \A j \in 1..Len(e.ext) :
                      e.ext[j].line1 = t1 /\ e.ext[j].line2 = t2
    /\ \A i \in Constructions :
           /\ Len(hist[i].ext) <= 1
           /\ \A j \in 1..Len(hist[i].ext) :
                  LET c == hist[i].ext[j]
                  IN  /\ c.fn = "to_orbital_elements"
                      /\ c.run_type = "Verification"
                      /\ c.opsmode = "Improved"
                      /\ c.gravity = "Wgs84"
                      /\ ByteLen(c.line1) = 69 /\ Stripped(c.line1) = c.line1
                      /\ ByteLen(c.line2) = 69 /\ Stripped(c.line2) = c.line2

\* C9's case: both lines have a wrong length, and line 1 is the one reported.
C9_Witness ==
    \E i \in Calls("new") :
        /\ ByteLen(Stripped(hist[i].args[1])) = 68
        /\ ByteLen(Stripped(hist[i].args[2])) = 70
        /\ IsLengthError(hist[i].res, "Line 1", 68)

Segments == Headers \cup BlobLines1 \cup BlobLines2 \cup {<<>>}

\* C10: from_lines of a text of exactly three segments a, b, c returns what
\* the two lines b and c give, whatever a is, empty segments counted: so a
\* two-line blob with a newline after it fails on its empty third segment.
C10_HeaderByCount ==
    \A i \in Calls("from_lines") : \A a, b, c \in Segments :
        hist[i].args[1] = a \o <<"\n">> \o b \o <<"\n">> \o c
            => LET e == hist[i]
                   t1 == Stripped(b)
                   t2 == Stripped(c)
               IN  IF ByteLen(t1) # 69
                   THEN IsLengthError(e.res, "Line 1", ByteLen(t1))
                   ELSE IF ByteLen(t2) # 69
                   THEN IsLengthError(e.res, "Line 2", ByteLen(t2))
                   ELSE /\ Len(e.ext) = 1
                        /\ e.ext[1].line1 = t1
                        /\ e.ext[1].line2 = t2

\* C10's case: the two lines of the test followed by one newline are refused
\* for a line 2 of length 0.
C10_Witness ==
    \E i \in Calls("from_lines") :
        /\ hist[i].args[1] = TleLine1 \o <<"\n">> \o TleLine2 \o <<"\n">>
        /\ IsLengthError(hist[i].res, "Line 2", 0)

(***************************************************************************)
(* The reads of a handle (SpecProp).                                       *)
(***************************************************************************)

\* C1, as claimed: the elapsed time propagate_to hands to the propagator is
\* the target time minus the epoch in minutes: 60 times it is the difference
\* in seconds.
C1_ElapsedMinutes ==
    \A i \in Calls("propagate_to") :
        /\ Len(hist[i].ext) = 1
        /\ hist[i].ext[1].tsince * 60
               = hist[i].args[1] - hist[i].self.elements.epoch

\* C3, as claimed: propagating one handle to its epoch and to its epoch plus
\* one hour hands the propagator two different elapsed times, and the two
\* state vectors returned differ.
C3_DistinctStateVectors ==
    \A i, j \in Calls("propagate_to") :
        (/\ hist[i].args[1] = hist[i].self.elements.epoch
         /\ hist[j].args[1] = hist[j].self.elements.epoch + 3600)
            => /\ hist[i].ext[1].tsince # hist[j].ext[1].tsince
               /\ (hist[i].res.ok /\ hist[j].res.ok)
                      => hist[i].res.val # hist[j].res.val

\* C7: propagate_to calls the propagator once, on the handle's element set
\* with WGS-84; a failure, whatever its reason, is returned as the bare
\* PropagationError, and a success as the StateVector of the two vectors
\* returned, position first.
C7_OutcomeMapping ==
    \A i \in Calls("propagate_to") :
        LET e == hist[i]
        IN  /\ Len(e.ext) = 1
            /\ e.ext[1].fn = "run_sgp4"
            /\ e.ext[1].elements = e.self.elements
            /\ e.ext[1].gravity = "Wgs84"
            /\ IF e.ext[1].answer.ok
               THEN e.res = [ok |-> TRUE,
                             val |-> [position |-> e.ext[1].answer.rv[1],
                                      velocity |-> e.ext[1].answer.rv[2]]]
               ELSE e.res = [err |-> [kind |-> "PropagationError"],
                             ok |-> FALSE]

\* C7's case: the propagator failed for two different reasons and succeeded
\* once.
C7_Witness ==
    \E i, j, k \in Calls("propagate_to") :
        /\ ~hist[i].ext[1].answer.ok /\ ~hist[j].ext[1].answer.ok
        /\ hist[i].ext[1].answer.reason # hist[j].ext[1].answer.reason
        /\ hist[i].res = hist[j].res
        /\ hist[k].res.ok

\* C8: the reads leave the handle as it was: every call kept was made on the
\* handle as it is now; epoch always succeeds with the same timestamp; and
\* propagate_to to one target time returns one result, whatever was called
\* in between.
C8_ReadsLeaveHandleUnchanged ==
    /\ \A i \in Calls("epoch") \cup Calls("propagate_to") : hist[i].self = tle
    /\ \A i, j \in Calls("epoch") :
           hist[i].res.ok /\ hist[i].res = hist[j].res
    /\ \A i, j \in Calls("propagate_to") :
           hist[i].args = hist[j].args => hist[i].res = hist[j].res

\* C8's case: two propagations to one target time with a propagation to
\* another time, with another result, between them.
C8_Witness ==
    /\ Len(hist) = 3
    /\ \A i \in 1..3 : hist[i].op = "propagate_to"
    /\ hist[1].args = hist[3].args
    /\ hist[1].res.ok
    /\ hist[2].args # hist[1].args
    /\ hist[2].res # hist[1].res

====
